---- MODULE Spec2Model ----
(***************************************************************************)
(* Model of graphs/lineRevenue.py: the date resolver _parse_data_anno and  *)
(* the revenue aggregator line_revenue; and of top10_long of               *)
(* graphs/table_top10.py.                                                  *)
(*                                                                         *)
(* Instants are counted in whole hours; a Timestamp is a record            *)
(* [kind, year, month, day, hour].  Raw DATA cells are records that keep   *)
(* the fragments of the text ("a/b", "a/b/c", an ISO timestamp, free text, *)
(* the empty string, a missing cell).  pandas and dateutil are modelled by *)
(* what they do on these shapes (pandas 1.x/2.x, nanosecond Timestamps).   *)
(***************************************************************************)
EXTENDS Integers, Sequences, FiniteSets, TLC

VARIABLES
    row,          \* the row handed to _parse_data_anno (resolver harness)
    parsed,       \* what _parse_data_anno returned for row
    df,           \* the table handed to line_revenue
    sum_range,    \* granularity argument of line_revenue
    time_window,  \* recency window argument of line_revenue
    now,          \* pd.Timestamp.now() at the time of the call
    result,       \* outcome of line_revenue (figure and diagnostics)
    again,        \* a second call on the same arguments: its clock and outcome
    ticks,        \* x-axis ticks of a figure: n_ticks, tickvals, ticktext
    top10_args,   \* arguments of top10_long: df, artist, anno, top_n
    top10,        \* the rows top10_long returned
    pc            \* position: "start", "parsed", "rendered", "rendered_again", "thinned",
                  \* "ranked"

vars == <<row, parsed, df, sum_range, time_window, now, result, again, ticks, top10_args, top10, pc>>

(***************************************************************************)
(* Bounds of the model.                                                    *)
(***************************************************************************)
MaxRows == 3          \* rows of a table that has all its columns
MaxPartialRows == 1   \* rows of a table that lacks a column
MaxRowsTwice == 2     \* rows of a table that is rendered twice
MaxBuckets == 150     \* buckets of a series whose ticks are thinned
MaxWorks == 4         \* rows of a table given to top10_long

(***************************************************************************)
(* Calendar arithmetic of datetime / pd.Timestamp.                         *)
(***************************************************************************)
IsLeap(y) == (y % 4 = 0 /\ y % 100 # 0) \/ y % 400 = 0

DaysInMonth(y, m) ==
    IF m = 2 THEN (IF IsLeap(y) THEN 29 ELSE 28)
    ELSE IF m \in {4, 6, 9, 11} THEN 30 ELSE 31

\* Years a nanosecond Timestamp can hold (1677-09-21 .. 2262-04-11).
MinTimestampYear == 1678
MaxTimestampYear == 2261

ValidDate(y, m, d) ==
    /\ y >= MinTimestampYear /\ y <= MaxTimestampYear
    /\ m >= 1 /\ m <= 12
    /\ d >= 1 /\ d <= DaysInMonth(y, m)

\* Days since 1970-01-01 of a valid civil date.
Ordinal(y, m, d) ==
    LET yy  == IF m <= 2 THEN y - 1 ELSE y
        era == yy \div 400
        yoe == yy - era * 400
        mp  == (m + 9) % 12
        doy == (153 * mp + 2) \div 5 + d - 1
        doe == yoe * 365 + yoe \div 4 - yoe \div 100 + doy
    IN era * 146097 + doe - 719468

\* Civil date of a day number (inverse of Ordinal).
Civil(z0) ==
    LET z   == z0 + 719468
        era == z \div 146097
        doe == z - era * 146097
        yoe == (doe - doe \div 1460 + doe \div 36524 - doe \div 146096) \div 365
        doy == doe - (365 * yoe + yoe \div 4 - yoe \div 100)
        mp  == (5 * doy + 2) \div 153
        d   == doy - (153 * mp + 2) \div 5 + 1
        m   == IF mp < 10 THEN mp + 3 ELSE mp - 9
        y   == yoe + era * 400 + (IF m <= 2 THEN 1 ELSE 0)
    IN [year |-> y, month |-> m, day |-> d]

\* 0 = Monday .. 6 = Sunday (1970-01-01 was a Thursday).
Weekday(ord) == (ord + 3) % 7

(***************************************************************************)
(* Timestamps.                                                             *)
(***************************************************************************)
Ts(y, m, d, h) == [kind |-> "date", year |-> y, month |-> m, day |-> d, hour |-> h]
NaT            == [kind |-> "NaT", year |-> 0, month |-> 0, day |-> 0, hour |-> 0]
Raised         == [kind |-> "raise", year |-> 0, month |-> 0, day |-> 0, hour |-> 0]

\* pd.Timestamp(year=, month=, day=): ValueError on an impossible date,
\* which the caller's except clause turns into NaT.
Timestamp(y, m, d) == IF ValidDate(y, m, d) THEN Ts(y, m, d, 0) ELSE NaT

\* The instant of a timestamp, in hours since 1970-01-01 00:00.
Hours(t) == Ordinal(t.year, t.month, t.day) * 24 + t.hour

(***************************************************************************)
(* Raw cells.                                                              *)
(***************************************************************************)
Missing      == [kind |-> "missing"]                 \* NaN / None cell
Empty        == [kind |-> "empty"]                   \* '' or blanks
Text         == [kind |-> "text"]                    \* no date in it, e.g. 'abc'
Frag2(a, b, s)       == [kind |-> "frag2", a |-> a, b |-> b, sep |-> s]
Frag3(a, b, c, n, s) == [kind |-> "frag3", a |-> a, b |-> b, c |-> c, clen |-> n, sep |-> s]
Stamp(y, m, d, h)    == [kind |-> "ts", year |-> y, month |-> m, day |-> d, hour |-> h]

Num(v)  == [kind |-> "num", v |-> v]                 \* 2024, '2024', 2024.0
Inf     == [kind |-> "inf"]                          \* float('inf'), 'inf'
NoCol   == [kind |-> "nocol"]                        \* the column is absent

(***************************************************************************)
(* pd.to_datetime(raw, errors='coerce') on one string (dayfirst=False).    *)
(***************************************************************************)
\* Year dateutil puts in a date that names none (pandas' _DEFAULT_DATETIME).
DefaultYear == 1

\* dateutil's convertyear: a year written with at most two digits is placed
\* in the current century, then moved so that it lies within 50 years of
\* the current year; a longer year fragment is taken as written.
ConvertYear(c, clen, clock) ==
    IF clen > 2 THEN c
    ELSE LET century == (clock.year \div 100) * 100
             y       == c + century
         IN IF y >= clock.year + 50 THEN y - 100
            ELSE IF y < clock.year - 50 THEN y + 100
            ELSE y

\* Month-first reading of two leading numbers, swapped only when the first
\* cannot be a month.
MonthOf(a, b, swap) == IF swap /\ a > 12 THEN b ELSE a
DayOf(a, b, swap)   == IF swap /\ a > 12 THEN a ELSE b

\* Variant: the parsed timestamp cut down to its date (dt.normalize()).
Coerce_normalize(y, m, d, h) == IF ValidDate(y, m, d) THEN Ts(y, m, d, 0) ELSE NaT

\* A date outside the Timestamp range, or impossible, is coerced to NaT.
Coerce(y, m, d, h) == IF ValidDate(y, m, d) THEN Ts(y, m, d, h) ELSE NaT

\* Variant: a date that names no year takes the year of the call.
to_datetime_today(raw, clock) ==
    CASE raw.kind = "ts"    -> Coerce(raw.year, raw.month, raw.day, raw.hour)
      [] raw.kind = "frag3" -> Coerce(ConvertYear(raw.c, raw.clen, clock),
                                      MonthOf(raw.a, raw.b, TRUE),
                                      DayOf(raw.a, raw.b, TRUE), 0)
      [] raw.kind = "frag2" -> Coerce(clock.year,
                                      MonthOf(raw.a, raw.b, FALSE),
                                      DayOf(raw.a, raw.b, FALSE), 0)
      [] OTHER              -> NaT

to_datetime(raw, clock) ==
    CASE raw.kind = "ts"    -> Coerce(raw.year, raw.month, raw.day, raw.hour)
      [] raw.kind = "frag3" -> Coerce(ConvertYear(raw.c, raw.clen, clock),
                                      MonthOf(raw.a, raw.b, TRUE),
                                      DayOf(raw.a, raw.b, TRUE), 0)
      [] raw.kind = "frag2" -> Coerce(DefaultYear,
                                      MonthOf(raw.a, raw.b, FALSE),
                                      DayOf(raw.a, raw.b, FALSE), 0)
      [] OTHER              -> NaT

(***************************************************************************)
(* _parse_data_anno(row, date_col, anno_col)                               *)
(***************************************************************************)
\* int(float(row[anno_col])): the year, "none" when the except clause
\* (ValueError, TypeError, KeyError) swallows the failure, "overflow" when
\* int() of an infinite float raises OverflowError.
AnnoYear(anno) ==
    CASE anno.kind = "num" -> [kind |-> "year", v |-> anno.v]
      [] anno.kind = "inf" -> [kind |-> "overflow", v |-> 0]
      [] OTHER             -> [kind |-> "none", v |-> 0]

\* Lines 31-62: the manual split on '/' after '-' was turned into '/'.
ManualParse(raw, anno) ==
    CASE raw.kind = "frag2" ->
            LET year == AnnoYear(anno)
            IN CASE year.kind = "year"     -> Timestamp(year.v, raw.b, raw.a)
                 [] year.kind = "overflow" -> Raised
                 [] OTHER                  -> NaT
      [] raw.kind = "frag3" ->
            Timestamp(IF raw.clen > 2 THEN raw.c ELSE 2000 + raw.c, raw.b, raw.a)
      [] OTHER -> NaT

_parse_data_anno(r, clock) ==
    IF r.DATA.kind \in {"nocol", "missing", "empty"} THEN NaT
    ELSE LET dt == to_datetime(r.DATA, clock)
         IN IF dt.kind = "date" THEN dt ELSE ManualParse(r.DATA, r.ANNO)

(***************************************************************************)
(* line_revenue(_href, df, sum_range, time_window)                         *)
(***************************************************************************)
Columns == {"DATA", "ANNO", "PREZZO", "LUOGO DI VENDITA"}

RECURSIVE SumSet(_, _)
\* Sum of f[x] over the finite set S.
SumSet(f, S) ==
    IF S = {} THEN 0
    ELSE LET x == CHOOSE y \in S : TRUE IN f[x] + SumSet(f, S \ {x})

\* Sum of all values of a series (the zero entries add nothing).
Total(f) == SumSet(f, {x \in DOMAIN f : f[x] # 0})

Min(a, b) == IF a <= b THEN a ELSE b

\* t - pd.DateOffset(months=n): calendar months back, the day clipped to the
\* length of the target month, the time of day kept.
MonthsBack(t, n) ==
    LET total == t.year * 12 + (t.month - 1) - n
        y     == total \div 12
        m     == (total % 12) + 1
    IN Ts(y, m, Min(t.day, DaysInMonth(y, m)), t.hour)

\* Lines 97-105: now.replace(day=1) - 25 hours, then 12 / 3 / 1 months back.
\* The time of day of the call is kept by replace(day=1).
WindowMonths(tw) ==
    CASE tw = "last_year"     -> 12
      [] tw = "last_3_months" -> 3
      [] tw = "last_month"    -> 1

Cutoff(clock, tw) ==
    LET h0   == Ordinal(clock.year, clock.month, 1) * 24 + clock.hour - 25
        c    == Civil(h0 \div 24)
        base == Ts(c.year, c.month, c.day, h0 % 24)
    IN Hours(MonthsBack(base, WindowMonths(tw)))

\* Variant: the comparison of line 108 turned round.
InWindow_reversed(date, clock, tw) ==
    tw = "all_time" \/ (date.kind = "date" /\ Hours(date) <= Cutoff(clock, tw))

\* Line 108: df[df['_date'] >= cutoff]; a comparison with NaT is False.
InWindow(date, clock, tw) ==
    tw = "all_time" \/ (date.kind = "date" /\ Hours(date) >= Cutoff(clock, tw))

\* pd.to_numeric(errors='coerce') followed by notna().
IsNumeric(price) == price.kind = "num"

\* Variant: the weeks anchored on Sunday ('W-SUN').
Label_sunday(date, sr) ==
    LET ord == Ordinal(date.year, date.month, date.day)
    IN CASE sr = "week"  -> ord - ((Weekday(ord) + 1) % 7)
         [] sr = "month" -> Ordinal(date.year, date.month, 1)
         [] OTHER        -> ord

\* Start label of the resample bin (closed='left', label='left') holding
\* the date, as a day number: 'D', 'W-MON' or 'MS'.
Label(date, sr) ==
    LET ord == Ordinal(date.year, date.month, date.day)
    IN CASE sr = "week"  -> ord - Weekday(ord)
         [] sr = "month" -> Ordinal(date.year, date.month, 1)
         [] OTHER        -> ord

\* Start label of the bin that follows the bin labelled l.
NextLabel(l, sr) ==
    CASE sr = "week"  -> l + 7
      [] sr = "month" -> LET c == Civil(l) IN l + DaysInMonth(c.year, c.month)
      [] OTHER        -> l + 1

\* The labels of all bins from the bin labelled lo to the bin labelled hi:
\* resample keeps the empty bins in between.
LabelRange(lo, hi, sr) ==
    CASE sr = "week"  -> {lo + 7 * k : k \in 0 .. ((hi - lo) \div 7)}
      [] sr = "month" -> LET a == Civil(lo)
                             b == Civil(hi)
                         IN {Ordinal(i \div 12, (i % 12) + 1, 1) :
                                i \in (a.year * 12 + a.month - 1) .. (b.year * 12 + b.month - 1)}
      [] OTHER        -> lo .. hi

\* Body applied to the value of x, which is evaluated a single time.
Once(x, Body(_)) == CHOOSE y \in {Body(v) : v \in {x}} : TRUE

\* The label and the amount of each record, in row order.
Binned(recs, sr) ==
    [i \in 1 .. Len(recs) |->
        [label |-> Label(recs[i].date, sr), amount |-> recs[i].row.PREZZO.v]]

FirstLabel(b) == CHOOSE l \in {b[i].label : i \in DOMAIN b} :
                     \A i \in DOMAIN b : l <= b[i].label
LastLabel(b)  == CHOOSE l \in {b[i].label : i \in DOMAIN b} :
                     \A i \in DOMAIN b : l >= b[i].label

\* Variant: .mean() in place of .sum().
Resample_mean(recs, sr) ==
    IF recs = <<>> THEN [l \in {} |-> 0]
    ELSE Once(Binned(recs, sr), LAMBDA b :
           [l \in LabelRange(FirstLabel(b), LastLabel(b), sr) |->
               LET in == {i \in DOMAIN b : b[i].label = l}
               IN IF in = {} THEN 0
                  ELSE SumSet([i \in DOMAIN b |-> b[i].amount], in) \div Cardinality(in)])

\* Variant: a groupby on the label, which has no entry for an empty bin.
Resample_groupby(recs, sr) ==
    IF recs = <<>> THEN [l \in {} |-> 0]
    ELSE Once(Binned(recs, sr), LAMBDA b :
           [l \in {b[i].label : i \in DOMAIN b} |->
               SumSet([i \in DOMAIN b |-> b[i].amount],
                      {i \in DOMAIN b : b[i].label = l})])

\* recs: sequence of [row, date]; .resample(freq, label='left',
\* closed='left').sum() over the range of their own labels.
Resample(recs, sr) ==
    IF recs = <<>> THEN [l \in {} |-> 0]
    ELSE Once(Binned(recs, sr), LAMBDA b :
           [l \in LabelRange(FirstLabel(b), LastLabel(b), sr) |->
               SumSet([i \in DOMAIN b |-> b[i].amount],
                      {i \in DOMAIN b : b[i].label = l})])

\* The places of the records that have one.
PlacesOf(recs) ==
    {recs[i].row.LUOGO.v :
        i \in {j \in 1 .. Len(recs) : recs[j].row.LUOGO.kind = "place"}}

\* Variant: groupby(place, dropna=False), the rows without a place forming
\* a group of their own.
ByPlace_keepna(recs, sr) ==
    [p \in PlacesOf(recs)
            \cup {"nan" : i \in {j \in 1 .. Len(recs) : recs[j].row.LUOGO.kind # "place"}} |->
        Resample(SelectSeq(recs, LAMBDA r :
            IF p = "nan" THEN r.row.LUOGO.kind # "place"
            ELSE r.row.LUOGO.kind = "place" /\ r.row.LUOGO.v = p), sr)]

\* groupby(place): each place resampled over its own range; the rows whose
\* place is missing belong to no group.
ByPlace(recs, sr) ==
    [p \in PlacesOf(recs) |->
        Resample(SelectSeq(recs, LAMBDA r :
            r.row.LUOGO.kind = "place" /\ r.row.LUOGO.v = p), sr)]

\* Variant: the per-place bins labelled by their right edge.
PlaceTable_right(recs, sr) ==
    Once(ByPlace(recs, sr), LAMBDA own :
      Once(UNION {DOMAIN own[p] : p \in DOMAIN own}, LAMBDA labels :
        [p \in DOMAIN own |->
           [l \in {NextLabel(k, sr) : k \in labels} |->
               LET k == CHOOSE j \in labels : NextLabel(j, sr) = l
               IN IF k \in DOMAIN own[p] THEN own[p][k] ELSE 0]]))

\* Lines 185-188: unstack(level=0).fillna(0) puts the per-place series on
\* the union of their labels.
PlaceTable(recs, sr) ==
    Once(ByPlace(recs, sr), LAMBDA own :
      Once(UNION {DOMAIN own[p] : p \in DOMAIN own}, LAMBDA labels :
        [p \in DOMAIN own |->
           [l \in labels |-> IF l \in DOMAIN own[p] THEN own[p][l] ELSE 0]]))

EmptySeries == [l \in {} |-> 0]
NoPlaces    == [p \in {} |-> EmptySeries]

\* First n elements of a sequence (DataFrame.head).
HeadN(s, n) == IF Len(s) <= n THEN s ELSE SubSeq(s, 1, n)
SampleSize == 20

\* Variant: the rows counted after the drop instead of before it.
DroppedPrice_after(before_drop, after_drop) == after_drop

\* Lines 146-148: before_drop - len(dgood).
DroppedPrice(before_drop, after_drop) == before_drop - after_drop

\* The figure and what the function prints: total_rows / readable_rows /
\* unread_count are the counts of line 122, report_readable is the
\* "Rows with readable dates" printed at line 251; frame is the local df
\* (rows with their _date) as it stands after the window filter of line 108.
Outcome(kind, title, overall, places, frame, unread, sample, total, readable, report, dropped) ==
    [kind |-> kind, title |-> title, overall |-> overall, places |-> places,
     frame |-> frame, unread_count |-> unread, unread_sample |-> sample,
     total_rows |-> total, readable_rows |-> readable,
     report_readable |-> report, dropped_price |-> dropped]

Raise  == Outcome("raise", "", EmptySeries, NoPlaces, <<>>, 0, <<>>, 0, 0, 0, 0)
NoCall == Outcome("none", "", EmptySeries, NoPlaces, <<>>, 0, <<>>, 0, 0, 0, 0)

\* Lines 110-267, on the frame left by the window filter.
Report(d, sr, kept) ==
    LET bad     == SelectSeq(kept, LAMBDA r : r.date.kind = "NaT")
        unread  == Len(bad)
        sample  == [i \in 1 .. Len(HeadN(bad, SampleSize)) |-> HeadN(bad, SampleSize)[i].row]
        dgood   == SelectSeq(kept, LAMBDA r : r.date.kind = "date")
    IN Once(SelectSeq(dgood, LAMBDA r : IsNumeric(r.row.PREZZO)), LAMBDA priced :
       IF Len(dgood) = 0
       THEN Outcome("nodata", "Nessun dato valido (date parsing fallito)",
                    EmptySeries, NoPlaces, kept, unread, sample,
                    Len(kept), Len(kept) - unread, 0, 0)
       ELSE IF "PREZZO" \notin d.cols
       THEN Outcome("nodata", "Nessun dato disponibile (colonna PREZZO mancante)",
                    EmptySeries, NoPlaces, kept, unread, sample,
                    Len(kept), Len(kept) - unread, 0, 0)
       ELSE IF Len(priced) = 0
       THEN Outcome("nodata", "Nessun dato valido (nessun PREZZO numerico)",
                    EmptySeries, NoPlaces, kept, unread, sample,
                    Len(kept), Len(kept) - unread, 0,
                    DroppedPrice(Len(dgood), Len(priced)))
       ELSE Outcome("figure", "Vendite (somma PREZZO)",
                    Resample(priced, sr),
                    IF "LUOGO DI VENDITA" \in d.cols THEN PlaceTable(priced, sr) ELSE NoPlaces,
                    kept, unread, sample,
                    Len(kept), Len(kept) - unread, Len(priced),
                    DroppedPrice(Len(dgood), Len(priced))))

\* Lines 92-108: the _date column, then the window filter.
Dated(d, clock) ==
    LET notna == SelectSeq(d.rows, LAMBDA r : r.DATA.kind # "missing")
    IN [i \in 1 .. Len(notna) |->
           [row |-> notna[i], date |-> _parse_data_anno(notna[i], clock)]]

\* Variant: the last year taken as the window when none is asked for.
line_revenue_windowed(d, sr, tw, clock) ==
    IF d.none \/ "DATA" \notin d.cols
    THEN Raise                     \* line 81: TypeError on None, KeyError on no DATA
    ELSE Once(Dated(d, clock), LAMBDA dated :
       IF Len(dated) = 0           \* line 83: nothing left after notna()
       THEN Outcome("nodata", "Nessun dato disponibile",
                    EmptySeries, NoPlaces, <<>>, 0, <<>>, 0, 0, 0, 0)
       ELSE IF \E i \in 1 .. Len(dated) : dated[i].date.kind = "raise"
       THEN Raise                  \* df.apply lets the OverflowError through
       ELSE Once(SelectSeq(dated, LAMBDA r :
                     InWindow(r.date, clock, IF tw = "all_time" THEN "last_year" ELSE tw)),
                 LAMBDA kept : Report(d, sr, kept)))

line_revenue(d, sr, tw, clock) ==
    IF d.none \/ "DATA" \notin d.cols
    THEN Raise                     \* line 81: TypeError on None, KeyError on no DATA
    ELSE Once(Dated(d, clock), LAMBDA dated :
       IF Len(dated) = 0           \* line 83: nothing left after notna()
       THEN Outcome("nodata", "Nessun dato disponibile",
                    EmptySeries, NoPlaces, <<>>, 0, <<>>, 0, 0, 0, 0)
       ELSE IF \E i \in 1 .. Len(dated) : dated[i].date.kind = "raise"
       THEN Raise                  \* df.apply lets the OverflowError through
       ELSE Once(SelectSeq(dated, LAMBDA r : InWindow(r.date, clock, tw)),
                 LAMBDA kept : Report(d, sr, kept)))

(***************************************************************************)
(* What the call does to the table it is given.  Frames are told apart by  *)
(* identity: heap maps each frame to its columns and rows, at is the frame *)
(* the local name df is bound to, 0 is the frame the caller passed.        *)
(***************************************************************************)
\* Variant: the rows removed from the frame itself (dropna(inplace=True)).
Select_inplace(s, rows) == [s EXCEPT !.heap[s.at].rows = rows]

\* df = df[mask]: indexing with a mask builds a new frame and the name is
\* bound to it.
Select(s, rows) ==
    LET new == Cardinality(DOMAIN s.heap)
    IN [heap |-> s.heap @@ (new :> [s.heap[s.at] EXCEPT !.rows = rows]), at |-> new]

\* df = df.copy()
Copy(s) ==
    LET new == Cardinality(DOMAIN s.heap)
    IN [heap |-> s.heap @@ (new :> s.heap[s.at]), at |-> new]

\* df[col] = ...: written into the frame the name is bound to.
SetColumn(s, col) == [s EXCEPT !.heap[s.at].cols = @ \cup {col}]

\* The caller's table after the call.  Line 81 raises before any write on
\* None or a table without DATA; lines 83-86 return before line 88; the
\* helper column _price goes to dgood, a copy of the dated rows (lines
\* 125-144).
TableAfter(d) ==
    IF d.none \/ "DATA" \notin d.cols THEN d
    ELSE LET passed == [heap |-> (0 :> d), at |-> 0]
             notna  == Select(passed, SelectSeq(d.rows, LAMBDA r : r.DATA.kind # "missing"))
             dated  == IF notna.heap[notna.at].rows = <<>> THEN notna
                       ELSE SetColumn(Copy(notna), "_date")
             dgood  == IF notna.heap[notna.at].rows = <<>> \/ "PREZZO" \notin d.cols THEN dated
                       ELSE SetColumn(Copy(dated), "_price")
         IN dgood.heap[0]

(***************************************************************************)
(* Lines 238-248: the ticks of the x axis, thinned when there are many.    *)
(***************************************************************************)
max_ticks == 70

\* math.ceil(n_ticks / max_ticks)
step(n_ticks) == (n_ticks + max_ticks - 1) \div max_ticks

\* list(range(0, n_ticks, step)), then the last index appended if missing.
sel(n_ticks) ==
    LET st    == step(n_ticks)
        range == [k \in 1 .. ((n_ticks + st - 1) \div st) |-> (k - 1) * st]
    IN IF range[Len(range)] # n_ticks - 1 THEN Append(range, n_ticks - 1) ELSE range

\* One tick per bucket of the overall series: tickvals are the bucket
\* positions, ticktext the label text written for each.
TickText(i) == [text |-> i]
AllTicks(n) == [n_ticks |-> n,
                tickvals |-> [k \in 1 .. n |-> k - 1],
                ticktext |-> [k \in 1 .. n |-> TickText(k - 1)]]
NoTicks == [n_ticks |-> 0, tickvals |-> <<>>, ticktext |-> <<>>]

Thin(t) ==
    IF t.n_ticks > max_ticks
    THEN [n_ticks |-> t.n_ticks,
          tickvals |-> [k \in 1 .. Len(sel(t.n_ticks)) |-> t.tickvals[sel(t.n_ticks)[k] + 1]],
          ticktext |-> [k \in 1 .. Len(sel(t.n_ticks)) |-> t.ticktext[sel(t.n_ticks)[k] + 1]]]
    ELSE t

(***************************************************************************)
(* Inputs.                                                                 *)
(***************************************************************************)
Place(v) == [kind |-> "place", v |-> v]
Row(data, anno, prezzo, luogo) ==
    [DATA |-> data, ANNO |-> anno, PREZZO |-> prezzo, LUOGO |-> luogo]

\* Times of the call: December 2026, before and after 01:00.
NowSet == {Ts(2026, 12, 3, 0), Ts(2026, 12, 3, 2)}

Granularities == {"day", "week", "month"}
Windows       == {"all_time", "last_month", "last_3_months", "last_year"}

\* Rows fed to the resolver on its own.
Days      == {1, 5, 12, 13, 29, 31}
Months    == {2, 8, 12, 13}
YearFrags == {<<5, 1>>, <<25, 2>>, <<99, 2>>, <<1999, 4>>, <<2024, 4>>, <<2025, 4>>}
Seps      == {"/", "-"}
Annos     == {Num(2024), Num(2025), Missing, Text, Inf, NoCol}

ParseCells ==
    {Frag2(a, b, s) : a \in Days, b \in Months, s \in Seps}
    \cup {Frag3(a, b, y[1], y[2], s) : a \in Days, b \in Months, y \in YearFrags, s \in Seps}
    \cup {Stamp(2024, 8, 31, 10), Text, Empty, Missing, NoCol}

ParseRows == {Row(c, a, Num(10), Place("A")) : c \in ParseCells, a \in Annos}

\* Rows of the tables fed to line_revenue.
TableRows ==
    { Row(Frag3(30, 10, 2026, 4, "/"), Num(2026), Num(10), Place("A")),
      Row(Frag3(15, 11, 26, 2, "/"),   Num(2026), Num(20), Place("B")),
      Row(Stamp(2026, 11, 16, 10),     Num(2026), Num(5),  Place("A")),
      Row(Frag2(30, 11, "/"),          Num(2025), Num(7),  Place("A")),
      Row(Frag2(30, 8, "/"),           Num(2026), Num(8),  Place("B")),
      Row(Frag3(5, 11, 2026, 4, "-"),  Num(2026), Num(4),  Place("B")),
      Row(Frag3(30, 10, 2026, 4, "/"), Num(2026), Num(3),  Missing),
      Row(Frag3(15, 11, 2026, 4, "/"), Num(2026), Text,    Place("A")),
      Row(Text,                        Num(2026), Num(10), Place("A")),
      Row(Empty,                       Missing,   Num(10), Place("B")),
      Row(Missing,                     Num(2026), Num(10), Place("A")),
      Row(Frag2(30, 10, "/"),          Inf,       Num(10), Place("A")) }

\* A table without some column: every cell of that column is absent.
Mask(r, cols) ==
    [DATA   |-> IF "DATA" \in cols THEN r.DATA ELSE NoCol,
     ANNO   |-> IF "ANNO" \in cols THEN r.ANNO ELSE NoCol,
     PREZZO |-> IF "PREZZO" \in cols THEN r.PREZZO ELSE NoCol,
     LUOGO  |-> IF "LUOGO DI VENDITA" \in cols THEN r.LUOGO ELSE NoCol]

ColumnSets == {Columns} \cup {Columns \ {c} : c \in Columns}

Tables(max) ==
    UNION {[1 .. n -> TableRows] : n \in 0 .. max}

Frame(rows, cols) ==
    [none |-> FALSE, cols |-> cols, rows |-> [i \in 1 .. Len(rows) |-> Mask(rows[i], cols)]]
NoneFrame == [none |-> TRUE, cols |-> {}, rows |-> <<>>]

NoSecond == [now |-> NaT, result |-> NoCall]

(***************************************************************************)
(* graphs/table_top10.py: top10_long.  A text cell keeps its trimmed text  *)
(* v and whether blanks surround it; the texts of OPERA are numbered in    *)
(* their alphabetical order, so that < on them is the order of the titles. *)
(***************************************************************************)
Str(v)    == [kind |-> "str", v |-> v, pad |-> FALSE]     \* 'Alba'
Padded(v) == [kind |-> "str", v |-> v, pad |-> TRUE]      \* ' Alba '
NoneArg   == [kind |-> "none"]                            \* None

\* Lines 28-30: astype(str).str.strip()
Strip(cell) == cell.v

required == {"ARTISTA", "ANNO", "OPERA"}

\* Lines 32-36
Lower(v) == IF v = "Tutti" THEN "tutti" ELSE v
is_all(x) ==
    x.kind = "none" \/ Strip(x) = "" \/ Lower(Strip(x)) \in {"tutti", "all", "tutto", "tutte"}

\* Lines 27-30: the rows with no missing cell, their texts trimmed.
df2(d) ==
    LET whole == SelectSeq(d.rows, LAMBDA r :
                     r.ARTISTA.kind = "str" /\ r.ANNO.kind = "str" /\ r.OPERA.kind = "str")
    IN [i \in 1 .. Len(whole) |->
           [ARTISTA |-> Strip(whole[i].ARTISTA), ANNO |-> Strip(whole[i].ANNO),
            OPERA |-> Strip(whole[i].OPERA)]]

\* groupby([..., 'OPERA']).size() on rows of one artist/year selection.
Counts(dff) ==
    [o \in {dff[i].OPERA : i \in 1 .. Len(dff)} |->
        Cardinality({i \in 1 .. Len(dff) : dff[i].OPERA = o})]

\* sort_values([..., 'count', 'OPERA'], ascending=[..., False, True]): the
\* place of opera o in the sorted frame.
Position(counts, o) ==
    1 + Cardinality({q \in DOMAIN counts :
            counts[q] > counts[o] \/ (counts[q] = counts[o] /\ q < o)})

\* Variant: rank(method='min'), equal counts sharing the lowest rank.
rank_min(counts, o) ==
    1 + Cardinality({q \in DOMAIN counts : counts[q] > counts[o]})

\* rank(method='first', ascending=False): equal counts ranked in the order
\* they stand in the frame.
rank_first(counts, o) ==
    1 + Cardinality({q \in DOMAIN counts : counts[q] > counts[o]})
      + Cardinality({q \in DOMAIN counts :
            counts[q] = counts[o] /\ Position(counts, q) < Position(counts, o)})

\* counts[counts['rank'] <= top_n].sort_values([..., 'rank']) with the
\* columns ARTISTA, ANNO, rank, OPERA, count.
TopRows(dff, artista, anno, top_n) ==
    LET counts == Counts(dff)
        kept   == {o \in DOMAIN counts : rank_first(counts, o) <= top_n}
        Earlier(q, o) ==
            \/ rank_first(counts, q) < rank_first(counts, o)
            \/ /\ rank_first(counts, q) = rank_first(counts, o)
               /\ Position(counts, q) < Position(counts, o)
    IN [j \in 1 .. Cardinality(kept) |->
           LET o == CHOOSE o \in kept :
                        Cardinality({q \in kept : Earlier(q, o)}) = j - 1
           IN [ARTISTA |-> artista, ANNO |-> anno, rank |-> rank_first(counts, o),
               OPERA |-> o, count |-> counts[o]]]

top10_long(d, artist, anno, top_n) ==
    IF d.none \/ d.rows = <<>> THEN <<>>                  \* line 20
    ELSE IF ~(required \subseteq d.cols) THEN <<>>        \* line 24
    ELSE LET artist_all == is_all(artist)
             anno_all   == is_all(anno)
             dff == SelectSeq(df2(d), LAMBDA r :
                        /\ artist_all \/ r.ARTISTA = artist.v
                        /\ anno_all \/ r.ANNO = anno.v)
         IN IF dff = <<>> THEN <<>>                       \* lines 44, 55, 67, 79
            ELSE TopRows(dff,
                         IF artist_all THEN "Tutti" ELSE artist.v,
                         IF anno_all THEN "Tutti" ELSE anno.v,
                         top_n)

\* Inputs of top10_long.
Work(artista, anno, opera) == [ARTISTA |-> artista, ANNO |-> anno, OPERA |-> opera]
WorkRows ==
    { Work(Str("Rossi"),   Str("2024"), Str(2)),
      Work(Str("Rossi"),   Str("2024"), Str(1)),
      Work(Str("Bianchi"), Str("2025"), Padded(1)),
      Work(Str("Bianchi"), Str("2024"), Str(3)),
      Work(Missing,        Str("2024"), Str(3)),
      Work(Str("Rossi"),   Missing,     Str(2)),
      Work(Str("Bianchi"), Str("2025"), Missing) }
WorkTables(max) == UNION {[1 .. n -> WorkRows] : n \in 0 .. max}
WorkMask(r, cols) ==
    [ARTISTA |-> IF "ARTISTA" \in cols THEN r.ARTISTA ELSE NoCol,
     ANNO    |-> IF "ANNO" \in cols THEN r.ANNO ELSE NoCol,
     OPERA   |-> IF "OPERA" \in cols THEN r.OPERA ELSE NoCol]
WorkFrame(rows, cols) ==
    [none |-> FALSE, cols |-> cols, rows |-> [i \in 1 .. Len(rows) |-> WorkMask(rows[i], cols)]]
Artists == {NoneArg, Str("Tutti"), Str("Rossi")}
Years   == {NoneArg, Str("Tutti"), Str("2024")}
TopNs   == {0, 1, 2, 10}
Args(d, artist, anno, top_n) == [df |-> d, artist |-> artist, anno |-> anno, top_n |-> top_n]
NoArgs  == Args(NoneFrame, NoneArg, NoneArg, 0)

(***************************************************************************)
(* Specification of the resolver on its own: one row, one call.            *)
(***************************************************************************)
InitParse ==
    /\ row \in ParseRows
    /\ now \in NowSet
    /\ parsed = NaT
    /\ df = NoneFrame
    /\ sum_range = "day"
    /\ time_window = "all_time"
    /\ result = NoCall
    /\ again = NoSecond
    /\ ticks = NoTicks
    /\ top10_args = NoArgs
    /\ top10 = <<>>
    /\ pc = "start"

ParseDataAnno ==
    /\ pc = "start"
    /\ parsed' = _parse_data_anno(row, now)
    /\ pc' = "parsed"
    /\ UNCHANGED <<row, df, sum_range, time_window, now, result, again, ticks, top10_args, top10>>

NextParse == ParseDataAnno

SpecParse == InitParse /\ [][NextParse]_vars

(***************************************************************************)
(* Specification of line_revenue: one table, one call.                     *)
(***************************************************************************)
Init ==
    /\ df \in {Frame(t, Columns) : t \in Tables(MaxRows)}
             \cup {Frame(t, cols) : t \in Tables(MaxPartialRows), cols \in ColumnSets}
             \cup {NoneFrame}
    /\ sum_range \in Granularities
    /\ time_window \in Windows
    /\ now \in NowSet
    /\ result = NoCall
    /\ row = Row(Missing, Missing, Missing, Missing)
    /\ parsed = NaT
    /\ again = NoSecond
    /\ ticks = NoTicks
    /\ top10_args = NoArgs
    /\ top10 = <<>>
    /\ pc = "start"

LineRevenue ==
    /\ pc = "start"
    /\ result' = line_revenue(df, sum_range, time_window, now)
    /\ df' = TableAfter(df)
    /\ pc' = "rendered"
    /\ UNCHANGED <<row, parsed, sum_range, time_window, now, again, ticks, top10_args, top10>>

Next == LineRevenue

Spec == Init /\ [][Next]_vars

(***************************************************************************)
(* Specification of two calls of line_revenue with the same table,         *)
(* granularity and window, each reading the clock when it runs.            *)
(***************************************************************************)
InitTwice ==
    /\ df \in {Frame(t, Columns) : t \in Tables(MaxRowsTwice)}
    /\ sum_range \in Granularities
    /\ time_window \in Windows
    /\ now \in NowSet
    /\ result = NoCall
    /\ row = Row(Missing, Missing, Missing, Missing)
    /\ parsed = NaT
    /\ again = NoSecond
    /\ ticks = NoTicks
    /\ top10_args = NoArgs
    /\ top10 = <<>>
    /\ pc = "start"

LineRevenueAgain ==
    /\ pc = "rendered"
    /\ \E clock \in NowSet :
          again' = [now |-> clock,
                    result |-> line_revenue(df, sum_range, time_window, clock)]
    /\ df' = TableAfter(df)
    /\ pc' = "rendered_again"
    /\ UNCHANGED <<row, parsed, sum_range, time_window, now, result, ticks, top10_args, top10>>

NextTwice == LineRevenue \/ LineRevenueAgain

SpecTwice == InitTwice /\ [][NextTwice]_vars

(***************************************************************************)
(* Specification of the tick thinning on its own: a series of n buckets.   *)
(***************************************************************************)
InitTicks ==
    /\ ticks \in {AllTicks(n) : n \in 1 .. MaxBuckets}
    /\ df = NoneFrame
    /\ sum_range = "day"
    /\ time_window = "all_time"
    /\ now \in NowSet
    /\ result = NoCall
    /\ row = Row(Missing, Missing, Missing, Missing)
    /\ parsed = NaT
    /\ again = NoSecond
    /\ top10_args = NoArgs
    /\ top10 = <<>>
    /\ pc = "start"

ThinTicks ==
    /\ pc = "start"
    /\ ticks' = Thin(ticks)
    /\ pc' = "thinned"
    /\ UNCHANGED <<row, parsed, df, sum_range, time_window, now, result, again, top10_args, top10>>

NextTicks == ThinTicks

SpecTicks == InitTicks /\ [][NextTicks]_vars

(***************************************************************************)
(* Specification of top10_long on its own: one table, one call.            *)
(***************************************************************************)
InitTop ==
    /\ top10_args \in
          {Args(d, a, y, n) :
              d \in {WorkFrame(t, required) : t \in WorkTables(MaxWorks)}
                    \cup {WorkFrame(t, required \ {c}) : t \in WorkTables(1), c \in required}
                    \cup {NoneFrame},
              a \in Artists, y \in Years, n \in TopNs}
    /\ top10 = <<>>
    /\ ticks = NoTicks
    /\ df = NoneFrame
    /\ sum_range = "day"
    /\ time_window = "all_time"
    /\ now = Ts(2026, 12, 3, 0)
    /\ result = NoCall
    /\ row = Row(Missing, Missing, Missing, Missing)
    /\ parsed = NaT
    /\ again = NoSecond
    /\ pc = "start"

Top10Long ==
    /\ pc = "start"
    /\ top10' = top10_long(top10_args.df, top10_args.artist, top10_args.anno,
                           top10_args.top_n)
    /\ pc' = "ranked"
    /\ UNCHANGED <<row, parsed, df, sum_range, time_window, now, result, again, ticks,
                   top10_args>>

NextTop == Top10Long

SpecTop == InitTop /\ [][NextTop]_vars

(***************************************************************************)
(* Properties of the resolver (checked under SpecParse).                   *)
(***************************************************************************)
Done == pc = "parsed"
\* The year the three-fragment rule of lines 54-55 gives to a year fragment.
RuleYear(raw) == IF raw.clen > 2 THEN raw.c ELSE 2000 + raw.c

\* C1: a three-fragment raw date d/m/y that is a valid calendar date is
\* resolved with day = first fragment and month = second fragment, also
\* when d <= 12.
C1_DayBeforeMonth ==
    (Done /\ row.DATA.kind = "frag3"
          /\ ValidDate(RuleYear(row.DATA), row.DATA.b, row.DATA.a))
    => (parsed.kind = "date" /\ parsed.day = row.DATA.a /\ parsed.month = row.DATA.b)

\* C2: a two-fragment raw date d/m gets year = ANNO, month = m, day = d when
\* ANNO is numeric (and d/m/ANNO is a calendar date), and is unresolved when
\* ANNO is absent or not numeric; the direct parse puts no other year in.
C2_TwoFragmentsUseAnno ==
    (Done /\ row.DATA.kind = "frag2")
    => /\ (row.ANNO.kind = "num" /\ ValidDate(row.ANNO.v, row.DATA.b, row.DATA.a))
              => parsed = Ts(row.ANNO.v, row.DATA.b, row.DATA.a, 0)
       /\ row.ANNO.kind \in {"missing", "text", "nocol"} => parsed = NaT

C2_Witness ==
    /\ Done /\ row.DATA.kind = "frag2" /\ row.ANNO.kind = "num"
    /\ row.DATA.a <= 12 /\ row.DATA.a # row.DATA.b
    /\ parsed.kind = "date" /\ parsed.year = row.ANNO.v /\ parsed.day = row.DATA.a

\* C3: the resolved year of a three-fragment raw date is 2000 + y when the
\* year fragment has at most two digits and y itself otherwise.
C3_TwoDigitYearPlus2000 ==
    (Done /\ row.DATA.kind = "frag3" /\ parsed.kind = "date")
    => parsed.year = RuleYear(row.DATA)

\* C4: _parse_data_anno returns a date or NaT for every row; no exception
\* escapes.
C4_NoExceptionEscapes == Done => parsed.kind \in {"date", "NaT"}

C12_InvalidDatesUnresolved ==
    /\ (Done /\ row.DATA.kind = "frag3"
             /\ ~ValidDate(RuleYear(row.DATA), row.DATA.b, row.DATA.a))
       => parsed = NaT
    /\ (Done /\ row.DATA.kind = "frag2" /\ row.ANNO.kind = "num"
             /\ ~ValidDate(row.ANNO.v, row.DATA.b, row.DATA.a))
       => parsed = NaT

(***************************************************************************)
(* Properties of line_revenue (checked under Spec).                        *)
(***************************************************************************)
Rendered == pc = "rendered"
Returned == Rendered /\ result.kind \in {"nodata", "figure"}

\* The rows of the table that reach the resolver, with their resolved date.
Resolved(i) == _parse_data_anno(df.rows[i], now)
Reaches(i)  == df.rows[i].DATA.kind # "missing"

AllLabels(res) ==
    DOMAIN res.overall \cup UNION {DOMAIN res.places[p] : p \in DOMAIN res.places}

\* C5: line_revenue does not raise for a table that is None, empty or lacks
\* one of the columns DATA, ANNO, PREZZO, LUOGO DI VENDITA.
C5_NeverRaises ==
    (Rendered /\ (df.none \/ df.rows = <<>> \/ df.cols # Columns))
    => result.kind # "raise"

\* C6 (as stated): with a recency window, no bucket label of the overall or
\* per-location series is earlier than the cutoff.
C6_LabelsNotBeforeCutoff ==
    (Returned /\ time_window # "all_time")
    => \A l \in AllLabels(result) : l * 24 >= Cutoff(now, time_window)

\* C6 (amended): with a recency window, every bucket of the overall and
\* per-location series ends after the cutoff; its start label may precede
\* the cutoff by less than one period.
C6_BucketsEndAfterCutoff ==
    (Returned /\ time_window # "all_time")
    => Once(Cutoff(now, time_window), LAMBDA cutoff :
         \A l \in AllLabels(result) : NextLabel(l, sum_range) * 24 > cutoff)

C6_Witness ==
    /\ Returned /\ time_window # "all_time" /\ result.kind = "figure"
    /\ sum_range = "week"
    /\ \E l \in AllLabels(result) : l * 24 < Cutoff(now, time_window)

\* The cutoff of the claim: start of the first day of the current month,
\* 25 hours back, N months back.
MidnightCutoff(clock, tw) == Cutoff([clock EXCEPT !.hour = 0], tw)

\* C7: with a window, a record with a resolved date d is kept iff
\* d >= start of the first day of the current month - 25 hours - N months,
\* whatever the time of day of the call.
C7_KeptIffAfterMidnightCutoff ==
    (Returned /\ time_window # "all_time")
    => \A i \in 1 .. Len(df.rows) :
          (Reaches(i) /\ Resolved(i).kind = "date")
          => ((\E k \in 1 .. Len(result.frame) :
                   result.frame[k] = [row |-> df.rows[i], date |-> Resolved(i)])
              <=> Hours(Resolved(i)) >= MidnightCutoff(now, time_window))

\* C8: for every window the unresolved-date count is the number of records
\* whose date failed to resolve, and the sample holds the first of them.
Unresolved == SelectSeq(df.rows, LAMBDA r : r.DATA.kind # "missing"
                                            /\ _parse_data_anno(r, now).kind = "NaT")
C8_UnreadCountsUnresolved ==
    Returned
    => /\ result.unread_count = Len(Unresolved)
       /\ result.unread_sample = HeadN(Unresolved, SampleSize)

\* The records that count: date resolved, price numeric, inside the window.
Contributes(i) ==
    /\ Reaches(i) /\ Resolved(i).kind = "date"
    /\ df.rows[i].PREZZO.kind = "num"
    /\ (time_window = "all_time" \/ Hours(Resolved(i)) >= Cutoff(now, time_window))
Prices == [i \in 1 .. Len(df.rows) |->
              IF df.rows[i].PREZZO.kind = "num" THEN df.rows[i].PREZZO.v ELSE 0]
\* Hour of the resolved date of each row that counts (Contributes), -1 for
\* the other rows.
HoursOfValid ==
    Once(IF time_window = "all_time" THEN 0 ELSE Cutoff(now, time_window), LAMBDA cutoff :
      [i \in 1 .. Len(df.rows) |->
          IF Reaches(i) /\ df.rows[i].PREZZO.kind = "num"
          THEN Once(Resolved(i), LAMBDA t :
                 IF t.kind = "date" /\ (time_window = "all_time" \/ Hours(t) >= cutoff)
                 THEN Hours(t) ELSE -1)
          ELSE -1])

\* C9: the overall totals add up to the prices of exactly the records whose
\* date resolved, whose price is numeric and which lie in the window.
C9_OverallSumIsValidPrices ==
    Returned
    => Once(HoursOfValid, LAMBDA hrs :
         Total(result.overall) = SumSet(Prices, {i \in DOMAIN hrs : hrs[i] >= 0}))

C9_Witness ==
    /\ Returned /\ result.kind = "figure"
    /\ Cardinality({i \in 1 .. Len(df.rows) : Contributes(i)}) >= 2
    /\ \E l \in DOMAIN result.overall :
          Cardinality({i \in 1 .. Len(df.rows) :
              Contributes(i) /\ Label(Resolved(i), sum_range) = l}) >= 2

\* C10: when every retained record has a location, in each bucket of the
\* overall series the per-location totals (0 where a location has no entry)
\* add up to the overall total.
PlaceTotal(res, p, l) == IF l \in DOMAIN res.places[p] THEN res.places[p][l] ELSE 0
AllLocated ==
    /\ "LUOGO DI VENDITA" \in df.cols
    /\ \A i \in 1 .. Len(df.rows) : Contributes(i) => df.rows[i].LUOGO.kind = "place"
C10_PlacesAddUpToOverall ==
    (Returned /\ result.kind = "figure" /\ "LUOGO DI VENDITA" \in df.cols)
    => Once(HoursOfValid, LAMBDA hrs :
         (\A i \in DOMAIN hrs : hrs[i] >= 0 => df.rows[i].LUOGO.kind = "place")
         => \A l \in DOMAIN result.overall :
               SumSet([p \in DOMAIN result.places |-> PlaceTotal(result, p, l)],
                      DOMAIN result.places) = result.overall[l])

C10_Witness ==
    /\ Returned /\ result.kind = "figure" /\ AllLocated
    /\ \E l \in DOMAIN result.overall :
          Cardinality({p \in DOMAIN result.places : PlaceTotal(result, p, l) > 0}) >= 2

\* C13: in the diagnostics printed with the figure, the rows with readable
\* dates are the rows whose date resolved, whatever their price; the total
\* is readable + unreadable, and it is the number of rows of the table given.
DateResolved == {i \in 1 .. Len(df.rows) : Reaches(i) /\ Resolved(i).kind = "date"}
C13_ReadableCountIgnoresPrice ==
    (Returned /\ result.kind = "figure")
    => /\ result.report_readable = Cardinality(DateResolved)
       /\ result.total_rows = result.report_readable + result.unread_count
       /\ result.total_rows = Len(df.rows)

\* The records the date filter retains: date resolved and inside the window.
Survives(i) ==
    /\ Reaches(i) /\ Resolved(i).kind = "date"
    /\ (time_window = "all_time" \/ Hours(Resolved(i)) >= Cutoff(now, time_window))
Survivors == {i \in 1 .. Len(df.rows) : Survives(i)}

\* The bucket labelled l covers the instants from l to the next label.
Covers(l, h) == l * 24 <= h /\ h < NextLabel(l, sum_range) * 24

\* The buckets of the overall series that cover the instant h; a period is
\* at most 31 days long, so their labels lie within 31 days before h.
BucketsOf(h) ==
    {l \in ((h \div 24) - 31) .. (h \div 24) :
        l \in DOMAIN result.overall /\ Covers(l, h)}

\* C16: every valid record lies in exactly one bucket, whose label L has
\* L <= date < L + one period, and its price is counted there; a week label
\* is a Monday (so a Monday record is in the week starting that day), a
\* month label is the first of the month, a day label the calendar day.
C16_RecordInItsOwnBucket ==
    (Returned /\ result.kind = "figure")
    => Once(HoursOfValid, LAMBDA hrs : Once(Prices, LAMBDA price :
         /\ \A i \in DOMAIN hrs :
               hrs[i] >= 0
               => Once(BucketsOf(hrs[i]), LAMBDA own :
                    /\ Cardinality(own) = 1
                    /\ \A l \in own :
                          result.overall[l]
                            = SumSet(price, {j \in DOMAIN hrs :
                                                hrs[j] >= 0 /\ Covers(l, hrs[j])}))
         /\ sum_range = "week" => \A l \in DOMAIN result.overall : Weekday(l) = 0
         /\ sum_range = "month" => \A l \in DOMAIN result.overall : Civil(l).day = 1))

C16_Witness ==
    /\ Returned /\ result.kind = "figure" /\ sum_range = "week"
    /\ \E i \in 1 .. Len(df.rows) :
          /\ Contributes(i)
          /\ Resolved(i).hour > 0
          /\ Weekday(Ordinal(Resolved(i).year, Resolved(i).month, Resolved(i).day)) = 0
          /\ Ordinal(Resolved(i).year, Resolved(i).month, Resolved(i).day)
                \in DOMAIN result.overall

\* C17: a row whose raw date is empty or blank is discarded up front like
\* a row whose raw date is missing: it is not among the rows that get
\* resolved and not among those reported as unresolved.
C17_EmptyDatesDroppedUpFront ==
    Returned
    => /\ \A k \in 1 .. Len(result.frame) :
             result.frame[k].row.DATA.kind \notin {"missing", "empty"}
       /\ \A k \in 1 .. Len(result.unread_sample) :
             result.unread_sample[k].DATA.kind \notin {"missing", "empty"}
       /\ result.unread_count
            = Len(SelectSeq(Unresolved, LAMBDA r : r.DATA.kind # "empty"))

\* C18: the overall series has exactly one entry per period from the bucket
\* of the earliest valid record to the bucket of the latest one, each label
\* followed by the next period's label (so strictly ascending and without
\* gaps), and a period holding no valid record has total 0.
C18_OverallContiguous ==
    (Returned /\ result.kind = "figure")
    => Once(Once(HoursOfValid, LAMBDA hrs :
                 UNION {BucketsOf(hrs[i]) : i \in {j \in DOMAIN hrs : hrs[j] >= 0}}),
            LAMBDA used :
         /\ used # {}
         /\ Once(CHOOSE lo \in used : \A l \in used : lo <= l, LAMBDA lo :
            Once(CHOOSE hi \in used : \A l \in used : l <= hi, LAMBDA hi :
              \A l \in DOMAIN result.overall :
                 /\ lo <= l /\ l <= hi
                 /\ l < hi => NextLabel(l, sum_range) \in DOMAIN result.overall
                 /\ l \notin used => result.overall[l] = 0)))

C18_Witness ==
    /\ Returned /\ result.kind = "figure" /\ sum_range = "month"
    /\ Cardinality(DOMAIN result.overall) >= 3
    /\ \E l \in DOMAIN result.overall :
          /\ result.overall[l] = 0
          /\ \A i \in 1 .. Len(df.rows) :
                Contributes(i) => ~Covers(l, Hours(Resolved(i)))

\* C19: when the PREZZO column is there and every record the date filter
\* retains (at least one) has a non-numeric price, the result is the empty
\* 'no numeric PREZZO' state and dropped_price is the number of records
\* the date filter retained.
C19_AllPricesDropped ==
    (Returned /\ "PREZZO" \in df.cols)
    => Once(Once(IF time_window = "all_time" THEN 0 ELSE Cutoff(now, time_window),
                 LAMBDA cutoff :
                   {i \in 1 .. Len(df.rows) :
                       Reaches(i) /\ Once(Resolved(i), LAMBDA t :
                           /\ t.kind = "date"
                           /\ time_window = "all_time" \/ Hours(t) >= cutoff)}),
            LAMBDA retained :
         (retained # {} /\ \A i \in retained : df.rows[i].PREZZO.kind # "num")
         => /\ result.kind = "nodata"
            /\ result.title = "Nessun dato valido (nessun PREZZO numerico)"
            /\ result.overall = EmptySeries /\ result.places = NoPlaces
            /\ result.dropped_price = Cardinality(retained))

C19_Witness ==
    /\ Returned /\ "PREZZO" \in df.cols
    /\ Cardinality(Survivors) >= 2
    /\ \A i \in Survivors : df.rows[i].PREZZO.kind # "num"
    /\ \E i \in 1 .. Len(df.rows) : Reaches(i) /\ Resolved(i).kind = "NaT"
    /\ result.dropped_price = 2

\* C15: line_revenue leaves the table it is given as it was, on the normal
\* path and on every early return: no row removed, no column added.
C15_TableUntouched == [][df' = df]_vars

C15_Witness ==
    /\ Returned /\ result.kind = "figure"
    /\ \E i \in 1 .. Len(df.rows) : df.rows[i].DATA.kind = "missing"
    /\ Len(result.frame) < Len(df.rows)
    /\ "_date" \notin df.cols /\ "_price" \notin df.cols

\* C22: a valid record without a location counts in the overall series and
\* in no per-location series: the per-location series are those of the
\* locations named by valid records, and in every bucket the overall total
\* exceeds the sum of the per-location totals by exactly the prices of the
\* location-less records of that bucket (strictly, prices being positive).
Unlocated(i) == Contributes(i) /\ df.rows[i].LUOGO.kind # "place"
C22_UnlocatedOnlyInOverall ==
    (Returned /\ result.kind = "figure" /\ "LUOGO DI VENDITA" \in df.cols)
    => Once(HoursOfValid, LAMBDA hrs : Once(Prices, LAMBDA price :
       Once({i \in DOMAIN hrs : hrs[i] >= 0 /\ df.rows[i].LUOGO.kind # "place"},
            LAMBDA unlocated :
         /\ DOMAIN result.places
              = {df.rows[i].LUOGO.v :
                    i \in {j \in DOMAIN hrs : hrs[j] >= 0 /\ j \notin unlocated}}
         /\ \A l \in DOMAIN result.overall :
               Once(SumSet([p \in DOMAIN result.places |-> PlaceTotal(result, p, l)],
                           DOMAIN result.places), LAMBDA placed :
                 IF \A i \in unlocated : ~Covers(l, hrs[i])
                 THEN placed = result.overall[l]
                 ELSE /\ placed < result.overall[l]
                      /\ result.overall[l] - placed
                           = SumSet(price, {i \in unlocated : Covers(l, hrs[i])})))))

C22_Witness ==
    /\ Returned /\ result.kind = "figure" /\ "LUOGO DI VENDITA" \in df.cols
    /\ \E l \in DOMAIN result.overall :
          /\ \E i \in 1 .. Len(df.rows) :
                Unlocated(i) /\ Covers(l, Hours(Resolved(i)))
          /\ \E p \in DOMAIN result.places :
                /\ PlaceTotal(result, p, l) > 0
                /\ PlaceTotal(result, p, l) < result.overall[l]

(***************************************************************************)
(* Two calls (checked under SpecTwice).                                    *)
(***************************************************************************)
Twice == pc = "rendered_again"

Thinned == pc = "thinned"

\* C20: for every series of n > 70 buckets the thinning keeps at most
\* max_ticks = 70 ticks; the kept ticks are in ascending order, the first
\* and the last bucket are among them, and tickvals and ticktext have the
\* same length.
C20_AtMostMaxTicks ==
    (Thinned /\ ticks.n_ticks > max_ticks)
    => /\ Len(ticks.tickvals) <= max_ticks
       /\ Len(ticks.ticktext) = Len(ticks.tickvals)
       /\ \A k \in 1 .. Len(ticks.tickvals) - 1 : ticks.tickvals[k] < ticks.tickvals[k + 1]
       /\ ticks.tickvals[1] = 0
       /\ ticks.tickvals[Len(ticks.tickvals)] = ticks.n_ticks - 1

(***************************************************************************)
(* Properties of top10_long (checked under SpecTop).                       *)
(***************************************************************************)
Ranked == pc = "ranked"
AllTime == is_all(top10_args.artist) /\ is_all(top10_args.anno)

\* The rows of the table that have ARTISTA, ANNO and OPERA, and the operas
\* they name (titles compared as trimmed text).
Whole ==
    {i \in 1 .. Len(top10_args.df.rows) :
        /\ top10_args.df.rows[i].ARTISTA.kind = "str"
        /\ top10_args.df.rows[i].ANNO.kind = "str"
        /\ top10_args.df.rows[i].OPERA.kind = "str"}
Operas == {top10_args.df.rows[i].OPERA.v : i \in Whole}
Times(o) == Cardinality({i \in Whole : top10_args.df.rows[i].OPERA.v = o})

\* C21: with no artist and no year (None or 'Tutti'), top10_long returns
\* min(top_n, number of distinct operas) rows; the j-th row has rank j, so
\* ranks 1..k occur once each; counts do not increase with the rank and
\* equal counts stand in ascending order of OPERA; every row has ARTISTA =
\* ANNO = 'Tutti' and the number of rows naming its opera as count, rows
\* with a missing ARTISTA, ANNO or OPERA not being counted; no opera left
\* out has a higher count than one included.
C21_AllTimeTopN ==
    (Ranked /\ AllTime)
    => /\ Len(top10) = Min(top10_args.top_n, Cardinality(Operas))
       /\ \A j \in 1 .. Len(top10) :
             /\ top10[j].rank = j
             /\ top10[j].ARTISTA = "Tutti" /\ top10[j].ANNO = "Tutti"
             /\ top10[j].OPERA \in Operas
             /\ top10[j].count = Times(top10[j].OPERA)
       /\ \A j \in 1 .. Len(top10) - 1 :
             \/ top10[j].count > top10[j + 1].count
             \/ /\ top10[j].count = top10[j + 1].count
                /\ top10[j].OPERA < top10[j + 1].OPERA
       /\ \A o \in Operas \ {top10[j].OPERA : j \in 1 .. Len(top10)} :
             \A j \in 1 .. Len(top10) : Times(o) <= top10[j].count

C21_Witness ==
    /\ Ranked /\ AllTime /\ top10_args.top_n = 2
    /\ Cardinality(Operas) = 3 /\ Len(top10) = 2
    /\ top10[1].count = top10[2].count
    /\ \E i \in 1 .. Len(top10_args.df.rows) : i \notin Whole
    /\ \E i \in Whole : top10_args.df.rows[i].OPERA.pad

====
